---------------------------- MODULE Spec2Model ----------------------------
(***************************************************************************)
(* Model of the two Tiled export scripts of tiled-to-gba-export:           *)
(*   "gba"         src/tiled-to-gba-export.js  (regular backgrounds)       *)
(*   "gba-affine"  src/unnamed/part_000        (affine backgrounds)        *)
(*                                                                         *)
(* A text the scripts build (headerFileData, sourceFileData) is modelled   *)
(* as the sequence of the words appended to it, a word being a non-empty   *)
(* string; the concatenation of the words is the text.  An entry of an     *)
(* array is one word, and the comma, the space and the line break after it *)
(* are words of one character each.  String.prototype.slice removes        *)
(* characters from the end of the text, cutting a word where it cuts.      *)
(***************************************************************************)
EXTENDS Integers, Sequences, FiniteSets, TLC

VARIABLES pc, mode, p_map, p_fileName, headerFileData, sourceFileData, i, ret, files, arg, res

vars == <<pc, mode, p_map, p_fileName, headerFileData, sourceFileData, i, ret, files, arg, res>>

(***************************************************************************)
(* Bounds of the model.                                                    *)
(***************************************************************************)
\* layers per map
MaxLayers == 2
\* screenblocks per axis of a map, besides the affine sizes
MaxBlocks == 2
\* cells of all the layers of one map together
MaxCells == 16384
\* largest p_decimal handed to decimalToHex on its own
MaxValue == 66000
\* largest p_padding handed to decimalToHex on its own
MaxPadding == 5
\* largest tileId of a cell encoded on its own
MaxTileId == 4100
\* longest string handed to the identifier replace on its own
MaxNameLen == 3

(***************************************************************************)
(* Strings and numbers.                                                    *)
(***************************************************************************)
LowerLetters == "abcdefghijklmnopqrstuvwxyz"

UpperLetters == "ABCDEFGHIJKLMNOPQRSTUVWXYZ"

DecimalDigits == "0123456789"

\* Number.prototype.toString(16) writes the digits above nine in lower case
HexDigitsLower == "0123456789abcdef"

\* the n-th character of a string
Char(s, n) == SubSeq(s, n, n)

Chars(s) == {Char(s, n) : n \in 1..Len(s)}

Front(s) == SubSeq(s, 1, Len(s) - 1)

Last(s) == s[Len(s)]

\* the digit of each value below the base
HexDigit == [d \in 0..15 |-> Char(HexDigitsLower, d + 1)]

DecimalDigit == [d \in 0..9 |-> Char(DecimalDigits, d + 1)]

RECURSIVE toString16(_)
toString16(n) ==
    IF n < 16 THEN HexDigit[n] ELSE toString16(n \div 16) \o HexDigit[n % 16]

\* the decimal digits a template literal or a string concatenation gives a number
RECURSIVE toString10(_)
toString10(n) ==
    IF n < 10 THEN DecimalDigit[n] ELSE toString10(n \div 10) \o DecimalDigit[n % 10]

\* the upper-case letter of each lower-case letter
UpperOf ==
    [c \in Chars(LowerLetters) |->
        Char(UpperLetters, CHOOSE n \in 1..Len(LowerLetters) : Char(LowerLetters, n) = c)]

toUpperCaseChar(c) == IF c \in DOMAIN UpperOf THEN UpperOf[c] ELSE c

RECURSIVE toUpperCase(_)
toUpperCase(s) ==
    IF s = "" THEN "" ELSE toUpperCaseChar(Head(s)) \o toUpperCase(Tail(s))

\* String.prototype.padStart with a fill string of one character
RECURSIVE padStart(_, _, _)
padStart(s, targetLength, fill) ==
    IF Len(s) >= targetLength THEN s ELSE padStart(fill \o s, targetLength, fill)

decimalToHex_Truncating(p_decimal, p_padding) ==
    LET s == padStart(toUpperCase(toString16(p_decimal)), p_padding, "0")
    IN  "0x" \o SubSeq(s, Len(s) - p_padding + 1, Len(s))

decimalToHex(p_decimal, p_padding) ==
    "0x" \o padStart(toUpperCase(toString16(p_decimal)), p_padding, "0")

(***************************************************************************)
(* The identifier replace: .replace(/[^a-zA-Z0-9-_]/g, "_").               *)
(***************************************************************************)
\* the characters of the class a-zA-Z0-9-_ (the negated class matches the others)
IdentifierClass ==
    Chars(LowerLetters) \cup Chars(UpperLetters) \cup Chars(DecimalDigits) \cup {"-", "_"}

\* the replace without its g flag: the first match only
RECURSIVE replaceSpecial_FirstOnly(_)
replaceSpecial_FirstOnly(name) ==
    IF name = "" THEN ""
    ELSE IF Head(name) \notin IdentifierClass THEN "_" \o Tail(name)
    ELSE Head(name) \o replaceSpecial_FirstOnly(Tail(name))

RECURSIVE replaceSpecial(_)
replaceSpecial(name) ==
    IF name = "" THEN ""
    ELSE (IF Head(name) \notin IdentifierClass THEN "_" ELSE Head(name))
            \o replaceSpecial(Tail(name))

(***************************************************************************)
(* Encoding of one cell.                                                   *)
(***************************************************************************)
\* a | b of two non-negative numbers below 2^31
RECURSIVE BitOr(_, _)
BitOr(a, b) ==
    IF a = 0 THEN b
    ELSE IF b = 0 THEN a
    ELSE 2 * BitOr(a \div 2, b \div 2) + (IF a % 2 = 1 \/ b % 2 = 1 THEN 1 ELSE 0)

\* 1 << n
ShiftLeft1(n) == 2 ^ n

\* currentTileID == "-1": the number -1 compares equal to the string "-1"
IsBlankTile(tileId) == tileId = -1

setFlipBit_Adding(tileId, flipped, bit) ==
    IF flipped THEN tileId + ShiftLeft1(bit) ELSE tileId

\* currentTileID |= (1 << bit), when the cell is flipped
setFlipBit(tileId, flipped, bit) ==
    IF flipped THEN BitOr(tileId, ShiftLeft1(bit)) ELSE tileId

regularEntry(currentTile) ==
    IF IsBlankTile(currentTile.tileId) THEN "0x0000"
    ELSE decimalToHex(
            setFlipBit(setFlipBit(currentTile.tileId, currentTile.flippedHorizontally, 10),
                       currentTile.flippedVertically, 11),
            4)

affineEntry_WithFlips(currentTile) == regularEntry(currentTile)

affineEntry(currentTile) ==
    IF IsBlankTile(currentTile.tileId) THEN "0x0000"
    ELSE decimalToHex(currentTile.tileId, 4)

(***************************************************************************)
(* Text.                                                                   *)
(***************************************************************************)
NL == "\n"

\* String.prototype.slice(0, -n): the text without its last n characters
RECURSIVE sliceEnd(_, _)
sliceEnd(text, n) ==
    IF n = 0 \/ text = <<>> THEN text
    ELSE IF Len(Last(text)) <= n THEN sliceEnd(Front(text), n - Len(Last(text)))
    ELSE Append(Front(text), SubSeq(Last(text), 1, Len(Last(text)) - n))

(***************************************************************************)
(* The map handed to write by the editor.                                  *)
(***************************************************************************)
\* Standard screenblock size for GBA
SCREENBLOCKWIDTH == 32

SCREENBLOCKHEIGHT == 32

Modes == {"gba", "gba-affine"}

\* widths and heights tried: whole screenblocks up to MaxBlocks, three sizes that
\* are no multiple of a screenblock, and for the affine script its four sizes
Dims(m) ==
    {16, 30, 33} \cup {SCREENBLOCKWIDTH * b : b \in 1..MaxBlocks}
        \cup (IF m = "gba-affine" THEN {16, 32, 64, 128} ELSE {})

LayerKinds == {"tiles", "blank", "objects", "resized"}

\* a layer of each kind in a map of the given size: "tiles" and "blank" are tile
\* layers of the map's size, "objects" is an object layer, "resized" is a tile
\* layer one screenblock wider than the map
LayerOfKind(kind, width, height) ==
    [name |-> CASE kind = "tiles" -> "My Layer #1"
                [] kind = "blank" -> "bg-2"
                [] kind = "objects" -> "Objects.A"
                [] OTHER -> "wide_3",
     width |-> IF kind = "resized" THEN width + SCREENBLOCKWIDTH ELSE width,
     height |-> height,
     isTileLayer |-> kind # "objects",
     pattern |-> IF kind = "blank" THEN "blank" ELSE "mixed"]

\* the layers of a map are of different kinds, so that no two have the same name
RECURSIVE KindSeqs(_)
KindSeqs(n) ==
    IF n = 0 THEN {<<>>}
    ELSE LET shorter == KindSeqs(n - 1)
         IN  shorter \cup
                UNION {{Append(s, k) : k \in LayerKinds \ {s[a] : a \in 1..Len(s)}} :
                        s \in shorter}

Maps(m) ==
    {[width |-> w, height |-> h,
      layers |-> [n \in 1..Len(kinds) |-> LayerOfKind(kinds[n], w, h)]] :
        w \in Dims(m), h \in Dims(m), kinds \in KindSeqs(MaxLayers)}

MapsWithin(m) ==
    {map \in Maps(m) : map.width * map.height * Len(map.layers) <= MaxCells}

\* FileInfo.completeBaseName(p_fileName)
FileBaseNames == {"my map.v1"}

\* layer.cellAt(x, y): the cells of a layer.  "mixed": a tile id that is the cell's
\* position, every fifth cell blank, flips by column and row (on blank cells too);
\* "blank": no tile anywhere, odd columns flipped
cellAt(layer, x, y) ==
    IF layer.pattern = "blank"
    THEN [tileId |-> -1, flippedHorizontally |-> x % 2 = 1, flippedVertically |-> FALSE]
    ELSE [tileId |-> IF (x + y) % 5 = 4 THEN -1 ELSE y * layer.width + x,
          flippedHorizontally |-> x % 2 = 1,
          flippedVertically |-> y % 3 = 0]

NoCall == <<>>

MainIdle ==
    /\ mode = "none"
    /\ p_map = [width |-> 0, height |-> 0, layers |-> <<>>]
    /\ p_fileName = ""
    /\ headerFileData = <<>>
    /\ sourceFileData = <<>>
    /\ i = 0
    /\ ret = "none"
    /\ files = [h |-> "none", c |-> "none"]

MainUnchanged ==
    UNCHANGED <<mode, p_map, p_fileName, headerFileData, sourceFileData, i, ret, files>>

(***************************************************************************)
(* write, first part: the size check and the head of both texts.           *)
(***************************************************************************)
regularSizeInvalid_And(width, height) ==
    width % 32 # 0 /\ height % 32 # 0

regularSizeInvalid(width, height) ==
    width % 32 # 0 \/ height % 32 # 0

affineSizeInvalid(width, height) ==
    ~ (\/ (width = 16 /\ height = 16)
       \/ (width = 32 /\ height = 32)
       \/ (width = 64 /\ height = 64)
       \/ (width = 128 /\ height = 128))

sizeInvalid(m, map) ==
    IF m = "gba" THEN regularSizeInvalid(map.width, map.height)
    ELSE affineSizeInvalid(map.width, map.height)

sizeError(m) ==
    IF m = "gba"
    THEN "Export failed: Invalid map size! Map width and height must be a multiple of 32."
    ELSE "Invalid map size! Map must be 16x16, 32x32, 64x64 or 128x128 in size."

\* FileInfo.completeBaseName(p_fileName), with its special characters replaced
fileBaseName(completeBaseName) == replaceSpecial(completeBaseName)

tilemapLength == p_map.width * p_map.height

\* one #define line of the header: regular mode writes the number bare, affine mode
\* aligns the names and puts the number in parentheses
defineLine(m, base, what, value) ==
    IF m = "gba"
    THEN "#define " \o toUpperCase(base) \o what \o " " \o toString10(value)
    ELSE "#define " \o toUpperCase(base) \o what
            \o (IF what = "_WIDTH" THEN "  (" ELSE " (") \o toString10(value) \o ")"

headerHead(m, base, map) ==
    << "#ifndef _" \o toUpperCase(base) \o "_H_", NL,
       "#define _" \o toUpperCase(base) \o "_H_", NL, NL,
       defineLine(m, base, "_WIDTH", map.width), NL,
       defineLine(m, base, "_HEIGHT", map.height), NL,
       defineLine(m, base, "_LENGTH", map.width * map.height), NL, NL,
       "#ifdef __cplusplus", NL, "extern \"C\" {", NL, "#endif", NL, NL >>

sourceHead(base) == << "#include \"" \o base \o ".h\"", NL, NL >>

Init ==
    /\ pc = "idle"
    /\ MainIdle
    /\ arg = NoCall
    /\ res = NoCall

\* write is entered: the size check, then the file name and the head of both texts
WriteBegin ==
    /\ pc = "idle"
    /\ \E m \in Modes : \E map \in MapsWithin(m) : \E name \in FileBaseNames :
        /\ mode' = m
        /\ p_map' = map
        /\ p_fileName' = name
        /\ IF sizeInvalid(m, map)
           THEN /\ ret' = sizeError(m)
                /\ pc' = "rejected"
                /\ UNCHANGED <<headerFileData, sourceFileData>>
           ELSE /\ ret' = "none"
                /\ pc' = "layers"
                /\ headerFileData' = headerHead(m, fileBaseName(name), map)
                /\ sourceFileData' = sourceHead(fileBaseName(name))
    /\ UNCHANGED <<i, files, arg, res>>

(***************************************************************************)
(* write, the layer loop.                                                  *)
(***************************************************************************)
externLine(name, length) ==
    "extern const unsigned short " \o name \o "[" \o toString10(length) \o "];"

definitionLine(name, length) ==
    "const unsigned short " \o name \o "[" \o toString10(length)
        \o "] __attribute__((aligned(4))) ="

arrayOpen(name, length) == << definitionLine(name, length), NL, "{", NL >>

\* "\n};\n\n"
arrayClose == << NL, "}", ";", NL, NL >>

Indent == "    "

currentTileX(x, k) == x + (SCREENBLOCKWIDTH * k)

currentTileY_NoOffset(y, j) == y

currentTileY(y, j) == y + (SCREENBLOCKHEIGHT * j)

\* one row of a screenblock: the indent, the SCREENBLOCKWIDTH entries, each
\* followed by ", ", and the line break
regularRow(layer, j, k, y) ==
    << Indent >>
    \o [p \in 1..(3 * SCREENBLOCKWIDTH) |->
            CASE (p - 1) % 3 = 0 ->
                    regularEntry(cellAt(layer, currentTileX((p - 1) \div 3, k),
                                        currentTileY(y, j)))
              [] (p - 1) % 3 = 1 -> ","
              [] OTHER -> " "]
    \o << NL >>

RECURSIVE regularRows(_, _, _, _)
regularRows(layer, j, k, y) ==
    IF y < SCREENBLOCKHEIGHT
    THEN regularRow(layer, j, k, y) \o regularRows(layer, j, k, y + 1)
    ELSE <<>>

screenBlock(layer, j, k, screenBlockID) ==
    << "    // Screeblock " \o toString10(screenBlockID), NL >>
    \o regularRows(layer, j, k, 0)
    \o << NL >>

screenBlockCountX_FromHeight(layer) == layer.height \div SCREENBLOCKHEIGHT

\* layer.width / SCREENBLOCKWIDTH: the layers of the model are whole screenblocks
screenBlockCountX(layer) == layer.width \div SCREENBLOCKWIDTH

screenBlockCountY(layer) == layer.height \div SCREENBLOCKHEIGHT

\* the loops over j (outer) and k (inner), from block (j, k) on
RECURSIVE screenBlocks(_, _, _, _)
screenBlocks(layer, j, k, screenBlockID) ==
    IF j >= screenBlockCountY(layer) THEN <<>>
    ELSE IF k >= screenBlockCountX(layer) THEN screenBlocks(layer, j + 1, 0, screenBlockID)
    ELSE screenBlock(layer, j, k, screenBlockID)
            \o screenBlocks(layer, j, k + 1, screenBlockID + 1)

\* Remove the last comma and close the array: done for every layer
regularSlice(text, layer) == sliceEnd(text, 3) \o arrayClose

regularLayer(text, layer, name, length) ==
    regularSlice(
        text \o arrayOpen(name, length)
             \o (IF layer.isTileLayer THEN screenBlocks(layer, 0, 0, 0) ELSE <<>>),
        layer)

affineRow(layer, width, y) ==
    << Indent >>
    \o [p \in 1..(3 * width) |->
            CASE (p - 1) % 3 = 0 -> affineEntry(cellAt(layer, (p - 1) \div 3, y))
              [] (p - 1) % 3 = 1 -> ","
              [] OTHER -> " "]
    \o << NL >>

RECURSIVE affineRows(_, _, _, _)
affineRows(layer, width, height, y) ==
    IF y < height
    THEN affineRow(layer, width, y) \o affineRows(layer, width, height, y + 1)
    ELSE <<>>

\* the rows run over the map's width and height; the array is closed only for a
\* tile layer
affineLayer(text, layer, name, length, map) ==
    IF layer.isTileLayer
    THEN sliceEnd(text \o arrayOpen(name, length)
                       \o affineRows(layer, map.width, map.height, 0), 3)
            \o arrayClose
    ELSE text \o arrayOpen(name, length)

layerCount == Len(p_map.layers)

\* one pass of the loop over the layers
LayerStep ==
    /\ pc = "layers"
    /\ i < layerCount
    /\ LET currentLayer == p_map.layers[i + 1]
           currentLayerName == replaceSpecial(currentLayer.name)
       IN  /\ headerFileData' =
                headerFileData \o << externLine(currentLayerName, tilemapLength), NL >>
           /\ sourceFileData' =
                IF mode = "gba"
                THEN regularLayer(sourceFileData, currentLayer, currentLayerName,
                                  tilemapLength)
                ELSE affineLayer(sourceFileData, currentLayer, currentLayerName,
                                 tilemapLength, p_map)
    /\ i' = i + 1
    /\ UNCHANGED <<pc, mode, p_map, p_fileName, ret, files, arg, res>>

headerTail ==
    << NL, "#ifdef __cplusplus", NL, "}", NL, "#endif", NL, NL, "#endif", NL >>

\* after the loop: the end of the header, and the second newline at the end of the
\* source text removed
FinishTexts ==
    /\ pc = "layers"
    /\ i = layerCount
    /\ headerFileData' = headerFileData \o headerTail
    /\ sourceFileData' = sliceEnd(sourceFileData, 1)
    /\ pc' = "newHeaderFile"
    /\ UNCHANGED <<mode, p_map, p_fileName, i, ret, files, arg, res>>

(***************************************************************************)
(* write, last part: the two files.  Each TextFile operation either        *)
(* succeeds or throws; write has no try, so an exception ends it.          *)
(***************************************************************************)
afterFailure_Swallowed(next) == next

\* where write is after a TextFile operation threw; next is where it would go on
afterFailure(next) == "threw"

fileOp(at, file, status, next) ==
    /\ pc = at
    /\ \/ /\ files' = [files EXCEPT ![file] = status]
          /\ pc' = next
          /\ ret' = IF next = "done" THEN "undefined" ELSE ret
       \/ /\ files' = [files EXCEPT ![file] = "failed"]
          /\ pc' = afterFailure(next)
          /\ ret' = IF afterFailure(next) = "threw" THEN "exception"
                    ELSE IF next = "done" THEN "undefined" ELSE ret
    /\ UNCHANGED <<mode, p_map, p_fileName, headerFileData, sourceFileData, i, arg, res>>

NewHeaderFile == fileOp("newHeaderFile", "h", "open", "headerWrite")

HeaderWrite == fileOp("headerWrite", "h", "written", "headerCommit")

HeaderCommit == fileOp("headerCommit", "h", "committed", "newSourceFile")

NewSourceFile == fileOp("newSourceFile", "c", "open", "sourceWrite")

SourceWrite == fileOp("sourceWrite", "c", "written", "sourceCommit")

SourceCommit == fileOp("sourceCommit", "c", "committed", "done")

Next ==
    \/ WriteBegin
    \/ LayerStep
    \/ FinishTexts
    \/ NewHeaderFile
    \/ HeaderWrite
    \/ HeaderCommit
    \/ NewSourceFile
    \/ SourceWrite
    \/ SourceCommit

Spec == Init /\ [][Next]_vars

(***************************************************************************)
(* The pure functions on their own: each specification draws the          *)
(* arguments of one call in its initial state and its one action applies  *)
(* the function.                                                           *)
(***************************************************************************)
InitHex ==
    /\ MainIdle
    /\ pc = "call"
    /\ arg \in [p_decimal : 0..MaxValue, p_padding : 1..MaxPadding]
    /\ res = NoCall

CallDecimalToHex ==
    /\ pc = "call"
    /\ res' = decimalToHex(arg.p_decimal, arg.p_padding)
    /\ pc' = "returned"
    /\ UNCHANGED arg
    /\ MainUnchanged

NextHex == CallDecimalToHex

SpecHex == InitHex /\ [][NextHex]_vars

NameAlphabet == {"a", "Z", "7", "-", "_", " ", "#", ".", "/"}

RECURSIVE StringsUpTo(_)
StringsUpTo(n) ==
    IF n = 0 THEN {""}
    ELSE LET shorter == StringsUpTo(n - 1)
         IN  shorter \cup {s \o c : s \in shorter, c \in NameAlphabet}

MyLayer1 == "My Layer #1"

InitSanitize ==
    /\ MainIdle
    /\ pc = "call"
    /\ arg \in StringsUpTo(MaxNameLen) \cup {MyLayer1}
    /\ res = NoCall

\* res is <<once, twice>>: the replace applied to arg, and applied to its own result
CallReplaceSpecial ==
    /\ pc = "call"
    /\ res' = <<replaceSpecial(arg), replaceSpecial(replaceSpecial(arg))>>
    /\ pc' = "returned"
    /\ UNCHANGED arg
    /\ MainUnchanged

NextSanitize == CallReplaceSpecial

SpecSanitize == InitSanitize /\ [][NextSanitize]_vars

InitCell ==
    /\ MainIdle
    /\ pc = "call"
    /\ arg \in [tileId : -1..MaxTileId, flippedHorizontally : BOOLEAN,
                flippedVertically : BOOLEAN]
    /\ res = NoCall

CallRegularEntry ==
    /\ pc = "call"
    /\ res' = regularEntry(arg)
    /\ pc' = "returned"
    /\ UNCHANGED arg
    /\ MainUnchanged

NextCell == CallRegularEntry

SpecCell == InitCell /\ [][NextCell]_vars

(***************************************************************************)
(* Reading emitted text back.                                              *)
(***************************************************************************)
UpperHexDigits == "0123456789ABCDEF"

HexDigitValue(c) == (CHOOSE n \in 1..16 : Char(UpperHexDigits, n) = c) - 1

RECURSIVE HexValue(_)
HexValue(digits) ==
    IF digits = "" THEN 0
    ELSE 16 * HexValue(Front(digits)) + HexDigitValue(Char(digits, Len(digits)))

\* the least number of hexadecimal digits that write v
RECURSIVE DigitsNeeded(_)
DigitsNeeded(v) == IF v < 16 THEN 1 ELSE 1 + DigitsNeeded(v \div 16)

Bit(v, n) == (v \div (2 ^ n)) % 2 = 1

DigitsOf(literal) == SubSeq(literal, 3, Len(literal))

DecimalDigitValue(c) == (CHOOSE n \in 1..10 : Char(DecimalDigits, n) = c) - 1

RECURSIVE DecimalValue(_)
DecimalValue(digits) ==
    IF digits = "" THEN 0
    ELSE 10 * DecimalValue(Front(digits)) + DecimalDigitValue(Char(digits, Len(digits)))

\* the number between the brackets of a declaration or definition line
DeclaredLength(line) ==
    LET open == CHOOSE n \in 1..Len(line) : Char(line, n) = "["
        close == CHOOSE n \in 1..Len(line) : Char(line, n) = "]"
    IN  DecimalValue(SubSeq(line, open + 1, close - 1))

StartsWith(word, prefix) ==
    Len(word) >= Len(prefix) /\ SubSeq(word, 1, Len(prefix)) = prefix

IsDefinitionLine(word) == StartsWith(word, "const unsigned short ")

IsExternLine(word) == StartsWith(word, "extern const unsigned short ")

IsLiteral(word) == StartsWith(word, "0x")

Positions(text, Test(_)) ==
    SelectSeq([n \in 1..Len(text) |-> n], LAMBDA n : Test(text[n]))

\* the source text of the n-th array: from its definition line up to the next
\* definition line, or to the end of the text
ArrayText(text, n) ==
    LET at == Positions(text, IsDefinitionLine)
    IN  SubSeq(text, at[n], IF n < Len(at) THEN at[n + 1] - 1 ELSE Len(text))

\* the entries of the n-th array, in the order of the text
Entries(text, n) == SelectSeq(ArrayText(text, n), IsLiteral)

ExternLines(text) == SelectSeq(text, IsExternLine)

Count(text, word) == Len(SelectSeq(text, LAMBDA w : w = word))

\* the layers whose pass of the loop is over, while write holds the texts and has yet
\* to hand them to the files (the file operations leave both texts as they are)
Processed == IF pc \in {"layers", "newHeaderFile"} THEN 1..i ELSE {}

SameSizeAsMap(layer) == layer.width = p_map.width /\ layer.height = p_map.height

IsWellFormedLiteral(literal) ==
    /\ IsLiteral(literal)
    /\ Len(literal) > 2
    /\ \A n \in 3..Len(literal) : Char(literal, n) \in Chars(UpperHexDigits)

(***************************************************************************)
(* C1: in regular mode, for a map of whole screenblocks and a tile layer   *)
(* of the map's size, the entry at index ((j*(W/32)+k)*32+y)*32+x is the   *)
(* encoding of the cell at (x+32*k, y+32*j), for every block row j, block  *)
(* column k, local y and local x; so the array has one entry per cell and  *)
(* reading the entries back gives the cells in that order.                 *)
(***************************************************************************)
\* the 16-bit value regular mode gives a cell: 0 for a blank one, else the tile id
\* with bit 10 set for a horizontal and bit 11 for a vertical flip
RegularValue(cell) ==
    IF cell.tileId = -1 THEN 0
    ELSE cell.tileId
            + (IF cell.flippedHorizontally /\ ~ Bit(cell.tileId, 10) THEN 1024 ELSE 0)
            + (IF cell.flippedVertically /\ ~ Bit(cell.tileId, 11) THEN 2048 ELSE 0)

C1_ScreenblockOrder ==
    mode = "gba" =>
        \A n \in Processed :
            LET layer == p_map.layers[n]
                W == p_map.width
                H == p_map.height
                E == Entries(sourceFileData, n)
            IN  (layer.isTileLayer /\ SameSizeAsMap(layer)) =>
                    /\ Len(E) = W * H
                    /\ \A j \in 0..(H \div 32 - 1), k \in 0..(W \div 32 - 1),
                          y \in 0..31, x \in 0..31 :
                            LET e == E[((j * (W \div 32) + k) * 32 + y) * 32 + x + 1]
                            IN  /\ IsWellFormedLiteral(e)
                                /\ HexValue(DigitsOf(e)) =
                                      RegularValue(cellAt(layer, x + 32 * k, y + 32 * j))

\* a 64x64 regular map whose second layer, a tile layer of the map's size, is done
C1_Witness ==
    /\ mode = "gba"
    /\ pc = "newHeaderFile"
    /\ p_map.width = 64
    /\ p_map.height = 64
    /\ i = 2
    /\ p_map.layers[2].isTileLayer
    /\ SameSizeAsMap(p_map.layers[2])
    /\ p_map.layers[2].pattern = "mixed"
    /\ Len(Entries(sourceFileData, 2)) = 4096

(***************************************************************************)
(* C2: for every layer of a successful export, in either mode, the array   *)
(* emitted for the layer holds exactly tilemapLength = width * height      *)
(* entries, the length its declaration in the header and its definition    *)
(* give it.                                                                *)
(***************************************************************************)
LengthsAgree(n) ==
    /\ Len(Entries(sourceFileData, n)) = p_map.width * p_map.height
    /\ DeclaredLength(ArrayText(sourceFileData, n)[1]) = p_map.width * p_map.height
    /\ DeclaredLength(ExternLines(headerFileData)[n]) = p_map.width * p_map.height

C3_CellEncoding ==
    pc = "returned" =>
        LET v == HexValue(DigitsOf(res))
            t == arg.tileId
        IN  /\ IsWellFormedLiteral(res)
            /\ t = -1 => res = "0x0000"
            /\ t # -1 =>
                /\ Bit(v, 10) = (arg.flippedHorizontally \/ Bit(t, 10))
                /\ Bit(v, 11) = (arg.flippedVertically \/ Bit(t, 11))
                /\ \A b \in (0..15) \ {10, 11} : Bit(v, b) = Bit(t, b)
                /\ v < 65536
                /\ Len(DigitsOf(res)) = 4
            /\ t \in 0..1023 =>
                /\ v % 1024 = t
                /\ Bit(v, 10) = arg.flippedHorizontally
                /\ Bit(v, 11) = arg.flippedVertically
            /\ (t = 5 /\ arg.flippedHorizontally /\ ~ arg.flippedVertically)
                    => res = "0x0405"
            /\ (t = 5 /\ arg.flippedHorizontally /\ arg.flippedVertically)
                    => res = "0x0C05"

C3_Witness ==
    /\ pc = "returned"
    /\ arg.tileId = 5
    /\ arg.flippedHorizontally
    /\ arg.flippedVertically
    /\ res = "0x0C05"

(***************************************************************************)
(* C4: in both modes the last entry of the array of every tile layer is    *)
(* followed by no comma before the closing brace.                          *)
(***************************************************************************)
NoCommaAfterLastEntry(array) ==
    LET last == CHOOSE n \in 1..Len(array) :
                    IsLiteral(array[n]) /\ \A m \in (n + 1)..Len(array) : ~ IsLiteral(array[m])
    IN  \E close \in (last + 1)..Len(array) :
            /\ array[close] = "}"
            /\ \A m \in (last + 1)..(close - 1) : array[m] # ","

C4_NoTrailingComma ==
    \A n \in Processed :
        p_map.layers[n].isTileLayer => NoCommaAfterLastEntry(ArrayText(sourceFileData, n))

(***************************************************************************)
(* C5: in either mode the source text holds, for every layer, tile layer   *)
(* or not and in layer order, one definition whose opening brace is there  *)
(* and is matched by its own closing brace and semicolon before the next   *)
(* definition; between the braces of a layer that is no tile layer there   *)
(* is nothing.                                                             *)
(***************************************************************************)
BracesMatch(array) ==
    /\ Count(array, "{") = 1
    /\ Count(array, "}") = 1
    /\ \E open \in 1..Len(array) : \E close \in (open + 1)..(Len(array) - 1) :
        /\ array[open] = "{"
        /\ array[close] = "}"
        /\ array[close + 1] = ";"

C5_OneClosedDefinitionPerLayer ==
    Processed # {} =>
        /\ Len(Positions(sourceFileData, IsDefinitionLine)) = i
        /\ \A n \in Processed :
            LET array == ArrayText(sourceFileData, n)
            IN  /\ array[1] = definitionLine(replaceSpecial(p_map.layers[n].name),
                                             p_map.width * p_map.height)
                /\ BracesMatch(array)
                /\ ~ p_map.layers[n].isTileLayer => Len(SelectSeq(array, IsLiteral)) = 0

(***************************************************************************)
(* C6: write returns an error string and touches no file whenever the map  *)
(* size is outside the mode's policy (affine: 16x16, 32x32, 64x64 or       *)
(* 128x128; regular: width and height positive multiples of 32), and       *)
(* returns no size error and goes on to encode exactly when it is inside.  *)
(***************************************************************************)
SizePolicy(m, width, height) ==
    IF m = "gba-affine"
    THEN <<width, height>> \in {<<16, 16>>, <<32, 32>>, <<64, 64>>, <<128, 128>>}
    ELSE /\ width > 0
         /\ height > 0
         /\ \E a \in 1..width : width = 32 * a
         /\ \E b \in 1..height : height = 32 * b

SizeErrors ==
    {"Export failed: Invalid map size! Map width and height must be a multiple of 32.",
     "Invalid map size! Map must be 16x16, 32x32, 64x64 or 128x128 in size."}

C6_SizeGate ==
    pc # "idle" =>
        /\ ~ SizePolicy(mode, p_map.width, p_map.height) =>
            /\ pc = "rejected"
            /\ ret \in SizeErrors
            /\ files = [h |-> "none", c |-> "none"]
            /\ headerFileData = <<>>
            /\ sourceFileData = <<>>
        /\ SizePolicy(mode, p_map.width, p_map.height) =>
            /\ pc # "rejected"
            /\ ret \notin SizeErrors
            /\ headerFileData # <<>>
            /\ sourceFileData # <<>>

C6_Witness ==
    /\ pc = "rejected"
    /\ mode = "gba"
    /\ p_map.width = 33
    /\ p_map.height = 32
    /\ ret \in SizeErrors

(***************************************************************************)
(* C7: in affine mode, for each of the four sizes and every tile layer,    *)
(* the entry at index y*W+x is 0x0000 if the cell (x, y) is blank and      *)
(* otherwise the tileId itself in hexadecimal, padded to four digits,      *)
(* whatever the cell's flips; an all-blank layer gives W*H times 0x0000.   *)
(***************************************************************************)
C7_AffineRowMajor ==
    mode = "gba-affine" =>
        \A n \in Processed :
            LET layer == p_map.layers[n]
                W == p_map.width
                H == p_map.height
                E == Entries(sourceFileData, n)
            IN  layer.isTileLayer =>
                    /\ Len(E) = W * H
                    /\ \A y \in 0..(H - 1), x \in 0..(W - 1) :
                            LET e == E[y * W + x + 1]
                                t == cellAt(layer, x, y).tileId
                            IN  IF t = -1 THEN e = "0x0000"
                                ELSE /\ IsWellFormedLiteral(e)
                                     /\ Len(e) = 6
                                     /\ HexValue(DigitsOf(e)) = t
                    /\ layer.pattern = "blank" => \A m \in 1..Len(E) : E[m] = "0x0000"

\* a 128x128 affine map whose one layer, all blank, is done
C7_Witness ==
    /\ mode = "gba-affine"
    /\ pc = "newHeaderFile"
    /\ p_map.width = 128
    /\ i = 1
    /\ p_map.layers[1].pattern = "blank"
    /\ Len(Entries(sourceFileData, 1)) = 16384

(***************************************************************************)
(* C8: the identifier replace turns every character outside [A-Za-z0-9_-]  *)
(* into "_" and leaves every other character as it is, so the result has   *)
(* the length of the argument and only characters of that class; applying  *)
(* it to its own result changes nothing.                                   *)
(***************************************************************************)
IdentifierChars ==
    Chars("abcdefghijklmnopqrstuvwxyzABCDEFGHIJKLMNOPQRSTUVWXYZ0123456789_-")

C8_Sanitizer ==
    pc = "returned" =>
        LET once == res[1]
            twice == res[2]
        IN  /\ Len(once) = Len(arg)
            /\ \A n \in 1..Len(arg) :
                    Char(once, n) = IF Char(arg, n) \in IdentifierChars THEN Char(arg, n) ELSE "_"
            /\ Chars(once) \subseteq IdentifierChars
            /\ twice = once
            /\ arg = "My Layer #1" => once = "My_Layer__1"

C8_Witness ==
    /\ pc = "returned"
    /\ arg = "My Layer #1"
    /\ res[1] = "My_Layer__1"
    /\ res[2] = "My_Layer__1"

(***************************************************************************)
(* C9: decimalToHex(v, p) is "0x" followed by the upper-case hexadecimal   *)
(* digits of v, padded with zeros on the left to at least p digits:        *)
(* exactly p digits when v < 16^p, more than p and none dropped when       *)
(* v >= 16^p; with p = 4 every v in 0..65535 gives exactly four digits.    *)
(***************************************************************************)
C9_HexFormat ==
    pc = "returned" =>
        LET v == arg.p_decimal
            p == arg.p_padding
            digits == DigitsOf(res)
        IN  /\ IsWellFormedLiteral(res)
            /\ HexValue(digits) = v
            /\ Len(digits) >= p
            /\ v < 16 ^ p => Len(digits) = p
            /\ v >= 16 ^ p => (Len(digits) > p /\ Len(digits) = DigitsNeeded(v))
            /\ (p = 4 /\ v \in 0..65535) => Len(digits) = 4

C9_Witness ==
    /\ pc = "returned"
    /\ arg.p_decimal = 65536
    /\ arg.p_padding = 4
    /\ res = "0x10000"

(***************************************************************************)
(* C10: no file operation is attempted before the size check has passed    *)
(* and both texts are built from all the layers, and none changes a text;  *)
(* the header file is written and committed before anything is done to the *)
(* source file; if the header fails, the source file is never touched and  *)
(* write does not end as a success.                                        *)
(***************************************************************************)
TextsBuilt ==
    /\ i = layerCount
    /\ Len(ExternLines(headerFileData)) = layerCount
    /\ Len(headerFileData) > 2
    /\ SubSeq(headerFileData, Len(headerFileData) - 1, Len(headerFileData))
            = << "#endif", NL >>
    /\ Len(Positions(sourceFileData, IsDefinitionLine)) = layerCount

FilesInOrder ==
    /\ files # [h |-> "none", c |-> "none"] =>
            (SizePolicy(mode, p_map.width, p_map.height) /\ TextsBuilt)
    /\ files.c # "none" => files.h = "committed"
    /\ files.h = "failed" => (files.c = "none" /\ ret = "exception" /\ pc = "threw")
    /\ ret = "undefined" => (files.h = "committed" /\ files.c = "committed")

C10_FileOrder ==
    /\ [] FilesInOrder
    /\ [][files' # files => UNCHANGED <<headerFileData, sourceFileData>>]_vars

\* an operation on the header file has thrown, after a map of two layers was built
C10_Witness ==
    /\ pc = "threw"
    /\ files.h = "failed"
    /\ files.c = "none"
    /\ i = 2

=============================================================================
